---- MODULE Spec2Model ----
(***************************************************************************)
(* Model of service-worker.js (BEHAVANA PWA): the install, activate, fetch *)
(* and message handlers, the cache-first strategy and its background       *)
(* refresh, over an explicit CacheStorage (an ordered list of named        *)
(* caches) and a network that can be switched off.                         *)
(*                                                                         *)
(* Every await of the source is a step of its own, so that handlers        *)
(* interleave exactly where the event loop lets them.  cache.put is called *)
(* without await in the source: the write is a pending operation that      *)
(* settles in a later step, after the caller has moved on.                 *)
(* Reads of the store (caches.match, caches.keys) are taken to succeed;    *)
(* caches.open, cache.put, cache.addAll, caches.delete and fetch may fail. *)
(*                                                                         *)
(* The platform is modelled as the Service Worker and Cache API define it: *)
(* fetch events reach the worker once it is activated, a rejected activate *)
(* promise does not stop activation, caches.match searches every cache in  *)
(* creation order, and a deleted cache stays usable through the handles    *)
(* that were opened before while it is no longer part of the store.        *)
(* Pages post messages to the waiting or the active worker.                *)
(***************************************************************************)
EXTENDS Integers, Sequences, FiniteSets, TLC

(* ------------------------------ bounds -------------------------------- *)

\* fetch events dispatched to the worker
MaxRequests == 2
\* message events dispatched to the worker
MaxMessages == 1
\* versions the network serves over time (1 .. MaxVer)
MaxVer == 2

(* ------------------------- program constants -------------------------- *)

CACHE_NAME == "behavana-v1.0.0"
EXTERNAL_CACHE_NAME == "behavana-external-v1"
DATA_CACHE_NAME == "behavana-data-v1"

\* a superseded generation left behind by an earlier version of the worker
OLD_CACHE_NAME == "behavana-v0.9.0"

FONTS_API == "https://fonts.googleapis.com"
FONTS_STATIC == "https://fonts.gstatic.com"
\* the origin the worker is served from; './x' resolves against it
SCOPE == "https://behavana.app"

\* new URL(s): the parts of a URL the handlers read
Local(path) == [protocol |-> "https:", origin |-> SCOPE, pathname |-> path]
FontCss == [protocol |-> "https:", origin |-> FONTS_API, pathname |-> "/css2"]
FontWoff == [protocol |-> "https:", origin |-> FONTS_STATIC,
             pathname |-> "/s/inter/v12/inter.woff2"]
ExtensionUrl == [protocol |-> "chrome-extension:",
                 origin |-> "chrome-extension://abc", pathname |-> "/inject.js"]

IndexHtml == Local("/index.html")
StylesCss == Local("/styles.css")

CACHE_URLS == <<Local("/"), IndexHtml, StylesCss, Local("/manifest.json")>>
EXTERNAL_URLS == <<FontCss, FontWoff>>

(* ------------------------------ responses ----------------------------- *)

\* JavaScript's undefined, where a Response is expected
undefined == [status |-> 0, statusText |-> "undefined", body |-> <<>>]

\* what the network answers for url u when it serves version v with status s
NetResponse(u, v, s) ==
    [status |-> s, statusText |-> IF s = 200 THEN "OK" ELSE "Not Found",
     body |-> <<u, v>>]

\* new Response('', { status: 408, statusText: 'Offline' })
OfflineResponse == [status |-> 408, statusText |-> "Offline", body |-> <<>>]

NetStatuses == {200, 404}

(* ----------------------------- CacheStorage --------------------------- *)

NoEntries == [u \in {} |-> undefined]

Min(S) == CHOOSE m \in S : \A n \in S : m <= n

CacheNames(cs) == {cs[k].name : k \in DOMAIN cs}

\* caches.keys(): the names, in creation order
CachesKeys(cs) == [k \in DOMAIN cs |-> cs[k].name]

\* caches.match(request): the first cache, in creation order, holding the url
CachesMatch(cs, u) ==
    LET hits == {k \in DOMAIN cs : u \in DOMAIN cs[k].entries}
    IN IF hits = {} THEN undefined ELSE cs[Min(hits)].entries[u]

\* the name of the cache caches.match answers from ("" when none does)
MatchedIn(cs, u) ==
    LET hits == {k \in DOMAIN cs : u \in DOMAIN cs[k].entries}
    IN IF hits = {} THEN "" ELSE cs[Min(hits)].name

\* caches.open(name): the cache is created, last, when it does not exist
CachesOpen(cs, n) ==
    IF n \in CacheNames(cs) THEN cs
    ELSE Append(cs, [name |-> n, entries |-> NoEntries])

\* cache.put(request, response) on the cache named n: overwrites the entry
CachePut(cs, n, u, r) ==
    [k \in DOMAIN cs |->
        IF cs[k].name = n
        THEN [name |-> n,
              entries |-> [w \in DOMAIN cs[k].entries \cup {u} |->
                              IF w = u THEN r ELSE cs[k].entries[w]]]
        ELSE cs[k]]

RECURSIVE PutAll(_, _, _, _)
\* the writes of cache.addAll(urls), once every fetch has answered 200
PutAll(cs, n, urls, v) ==
    IF urls = <<>> THEN cs
    ELSE PutAll(CachePut(cs, n, Head(urls), NetResponse(Head(urls), v, 200)),
                n, Tail(urls), v)

\* caches.delete(name)
CachesDelete(cs, n) == SelectSeq(cs, LAMBDA c : c.name # n)

(* ------------------------------- state -------------------------------- *)

VARIABLES
    caches,     \* CacheStorage: sequence of [name, entries], creation order
    online,     \* whether the network is reachable
    netVer,     \* the version the network currently serves
    phase,      \* lifecycle of the worker
    inst,       \* the install handler's promises
    act,        \* the activate handler's promises
    req,        \* the fetch events: one cacheFirstStrategy call each
    msg,        \* the message events: one CLEAR_CACHE sweep each
    skipWaiting,\* who has called self.skipWaiting()
    fresh       \* a CLEAR_CACHE sweep has completed and no fetch event since

vars == <<caches, online, netVer, phase, inst, act, req, msg, skipWaiting, fresh>>

(* ------------------------- the initial state -------------------------- *)

\* what an earlier version of the worker left in its generation
OldStore == [name |-> OLD_CACHE_NAME,
             entries |-> [u \in {IndexHtml} |-> NetResponse(u, 0, 200)]]

\* the reserved generation, as the page may have filled it
DataStore == [name |-> DATA_CACHE_NAME,
              entries |-> [u \in {FontCss} |-> NetResponse(u, 0, 200)]]

\* the generations that may exist when the worker script is first run
PreStores == {<<OldStore>>, <<DataStore>>}

Recognized == {CACHE_NAME, EXTERNAL_CACHE_NAME, DATA_CACHE_NAME}

\* a fetch event: the locals of cacheFirstStrategy (pc, request, cacheName,
\* cachedResponse, networkResponse, result) and of the updateCache it may
\* start (upc, updResponse), the cache.put the one or the other has called
\* (put), and three records of the past: the generation the lookup was
\* answered from (from), whether the event is the first one dispatched
\* after a completed CLEAR_CACHE sweep (first), and the version the last
\* completed refresh of the same URL had fetched at dispatch (refreshed)
IdleRequest ==
    [pc |-> "idle",
     request |-> [method |-> "", url |-> ExtensionUrl, destination |-> ""],
     cacheName |-> "",
     cachedResponse |-> undefined,
     networkResponse |-> undefined,
     result |-> undefined,
     from |-> "",
     upc |-> "none",
     updResponse |-> undefined,
     put |-> "none",
     first |-> FALSE,
     refreshed |-> 0]

IdleMessage == [pc |-> "idle", todo |-> <<>>]

Init ==
    /\ caches \in PreStores
    /\ online = TRUE
    /\ netVer = 1
    /\ phase = "parsed"
    /\ inst = [primary |-> "idle", external |-> "idle", all |-> "idle"]
    /\ act = [pc |-> "idle", stale |-> {}, todo |-> <<>>, claimed |-> FALSE]
    /\ req = [i \in 1..MaxRequests |-> IdleRequest]
    /\ msg = [k \in 1..MaxMessages |-> IdleMessage]
    /\ skipWaiting = {}
    /\ fresh = FALSE

(* ---------------------------- environment ----------------------------- *)

\* the device loses the network
GoOffline ==
    /\ online
    /\ online' = FALSE
    /\ UNCHANGED <<caches, netVer, phase, inst, act, req, msg, skipWaiting, fresh>>

\* the device regains the network
GoOnline ==
    /\ ~online
    /\ online' = TRUE
    /\ UNCHANGED <<caches, netVer, phase, inst, act, req, msg, skipWaiting, fresh>>

\* the server publishes a new version of the resources the pages request
Publish ==
    /\ phase = "activated"
    /\ netVer < MaxVer
    /\ netVer' = netVer + 1
    /\ UNCHANGED <<caches, online, phase, inst, act, req, msg, skipWaiting, fresh>>

(* ------------------------------ install ------------------------------- *)

\* cache.addAll(urls) succeeds when every fetch answers 200 and the batch
\* of writes is accepted; it writes nothing otherwise
AddAllOk(urls, statuses, stored) ==
    /\ online
    /\ \A k \in DOMAIN urls : statuses[k] = 200
    /\ stored

\* the 'install' listener: both branches of Promise.all are started
InstallEvent ==
    /\ phase = "parsed"
    /\ phase' = "installing"
    /\ inst' = [primary |-> "open", external |-> "open", all |-> "pending"]
    /\ UNCHANGED <<caches, online, netVer, act, req, msg, skipWaiting, fresh>>

\* caches.open(CACHE_NAME)
InstallPrimaryOpen ==
    /\ inst.primary = "open"
    /\ \E ok \in BOOLEAN :
         IF ok
         THEN /\ caches' = CachesOpen(caches, CACHE_NAME)
              /\ inst' = [inst EXCEPT !.primary = "addAll"]
         ELSE /\ inst' = [inst EXCEPT !.primary = "rejected"]
              /\ UNCHANGED caches
    /\ UNCHANGED <<online, netVer, phase, act, req, msg, skipWaiting, fresh>>

\* .then(cache => cache.addAll(CACHE_URLS)): a failure rejects the branch
InstallPrimaryAddAll ==
    /\ inst.primary = "addAll"
    /\ \E statuses \in [DOMAIN CACHE_URLS -> NetStatuses], stored \in BOOLEAN :
         IF AddAllOk(CACHE_URLS, statuses, stored)
         THEN /\ caches' = PutAll(caches, CACHE_NAME, CACHE_URLS, netVer)
              /\ inst' = [inst EXCEPT !.primary = "fulfilled"]
         ELSE /\ inst' = [inst EXCEPT !.primary = "rejected"]
              /\ UNCHANGED caches
    /\ UNCHANGED <<online, netVer, phase, act, req, msg, skipWaiting, fresh>>

\* caches.open(EXTERNAL_CACHE_NAME): no catch is attached to this promise
InstallExternalOpen ==
    /\ inst.external = "open"
    /\ \E ok \in BOOLEAN :
         IF ok
         THEN /\ caches' = CachesOpen(caches, EXTERNAL_CACHE_NAME)
              /\ inst' = [inst EXCEPT !.external = "addAll"]
         ELSE /\ inst' = [inst EXCEPT !.external = "rejected"]
              /\ UNCHANGED caches
    /\ UNCHANGED <<online, netVer, phase, act, req, msg, skipWaiting, fresh>>

\* .then(cache => cache.addAll(EXTERNAL_URLS).catch(...)): the catch turns
\* a failure of addAll into a fulfilled branch
InstallExternalAddAll ==
    /\ inst.external = "addAll"
    /\ \E statuses \in [DOMAIN EXTERNAL_URLS -> NetStatuses], stored \in BOOLEAN :
         IF AddAllOk(EXTERNAL_URLS, statuses, stored)
         THEN caches' = PutAll(caches, EXTERNAL_CACHE_NAME, EXTERNAL_URLS, netVer)
         ELSE UNCHANGED caches
    /\ inst' = [inst EXCEPT !.external = "fulfilled"]
    /\ UNCHANGED <<online, netVer, phase, act, req, msg, skipWaiting, fresh>>

\* Promise.all(...).then(() => self.skipWaiting()): install succeeds
InstallThen ==
    /\ inst.all = "pending"
    /\ inst.primary = "fulfilled"
    /\ inst.external = "fulfilled"
    /\ inst' = [inst EXCEPT !.all = "fulfilled"]
    /\ skipWaiting' = skipWaiting \cup {"install"}
    /\ phase' = "installed"
    /\ UNCHANGED <<caches, online, netVer, act, req, msg, fresh>>

\* Promise.all rejects with its first rejected branch: waitUntil fails the
\* install and the worker is discarded
InstallFail ==
    /\ inst.all = "pending"
    /\ \/ inst.primary = "rejected"
       \/ inst.external = "rejected"
    /\ inst' = [inst EXCEPT !.all = "rejected"]
    /\ phase' = "redundant"
    /\ UNCHANGED <<caches, online, netVer, act, req, msg, skipWaiting, fresh>>

(* ------------------------------ activate ------------------------------ *)

\* the pending writes that hold the cache named n lose it: a deleted cache
\* stays usable through its handle but is no longer in the store
Detach(rq, n) ==
    [i \in DOMAIN rq |->
        IF rq[i].put = "pending" /\ rq[i].cacheName = n
        THEN [rq[i] EXCEPT !.put = "detached"]
        ELSE rq[i]]

\* the 'activate' listener is dispatched once install has succeeded
ActivateEvent ==
    /\ phase = "installed"
    /\ phase' = "activating"
    /\ act' = [act EXCEPT !.pc = "keys"]
    /\ UNCHANGED <<caches, online, netVer, inst, req, msg, skipWaiting, fresh>>

\* ActivateKeys with the test of the names inverted: the deletions are
\* started for the three recognized names and the others are kept
ActivateKeysInverted ==
    /\ act.pc = "keys"
    /\ act' = [act EXCEPT
                 !.pc = "deleting",
                 !.stale = CacheNames(caches) \ Recognized,
                 !.todo = SelectSeq(CachesKeys(caches),
                                    LAMBDA n : \/ n = CACHE_NAME
                                               \/ n = EXTERNAL_CACHE_NAME
                                               \/ n = DATA_CACHE_NAME)]
    /\ UNCHANGED <<caches, online, netVer, phase, inst, req, msg, skipWaiting, fresh>>

\* ActivateKeys without the test of the names: a deletion is started for
\* every generation of the store
ActivateKeysAll ==
    /\ act.pc = "keys"
    /\ act' = [act EXCEPT
                 !.pc = "deleting",
                 !.stale = CacheNames(caches) \ Recognized,
                 !.todo = CachesKeys(caches)]
    /\ UNCHANGED <<caches, online, netVer, phase, inst, req, msg, skipWaiting, fresh>>

\* caches.keys().then(cacheNames => Promise.all(cacheNames.map(...))): a
\* caches.delete is started for every name that is not one of the three
ActivateKeys ==
    /\ act.pc = "keys"
    /\ act' = [act EXCEPT
                 !.pc = "deleting",
                 !.stale = CacheNames(caches) \ Recognized,
                 !.todo = SelectSeq(CachesKeys(caches),
                                    LAMBDA n : /\ n # CACHE_NAME
                                               /\ n # EXTERNAL_CACHE_NAME
                                               /\ n # DATA_CACHE_NAME)]
    /\ UNCHANGED <<caches, online, netVer, phase, inst, req, msg, skipWaiting, fresh>>

\* the next caches.delete(cacheName) settles (the store settles them in the
\* order they were started); the first one that fails rejects Promise.all:
\* clients.claim is skipped, waitUntil is released with the rejection and
\* the worker becomes active all the same
ActivateDelete ==
    /\ act.pc \in {"deleting", "rejected"}
    /\ act.todo # <<>>
    /\ \E ok \in BOOLEAN :
         IF ok
         THEN /\ caches' = CachesDelete(caches, Head(act.todo))
              /\ req' = Detach(req, Head(act.todo))
              /\ act' = [act EXCEPT !.todo = Tail(@)]
              /\ UNCHANGED phase
         ELSE /\ act' = [act EXCEPT !.todo = Tail(@), !.pc = "rejected"]
              /\ phase' = "activated"
              /\ UNCHANGED <<caches, req>>
    /\ UNCHANGED <<online, netVer, inst, msg, skipWaiting, fresh>>

\* ActivateThen without waiting for Promise.all: clients.claim is called
\* while deletions are pending or after one of them has failed
ActivateThenEarly ==
    /\ act.pc \in {"deleting", "rejected"}
    /\ act' = [act EXCEPT !.pc = "fulfilled", !.claimed = TRUE]
    /\ phase' = "activated"
    /\ UNCHANGED <<caches, online, netVer, inst, req, msg, skipWaiting, fresh>>

\* .then(() => self.clients.claim()): every deletion has been fulfilled
ActivateThen ==
    /\ act.pc = "deleting"
    /\ act.todo = <<>>
    /\ act' = [act EXCEPT !.pc = "fulfilled", !.claimed = TRUE]
    /\ phase' = "activated"
    /\ UNCHANGED <<caches, online, netVer, inst, req, msg, skipWaiting, fresh>>

(* ------------------------------- fetch -------------------------------- *)

\* the requests the pages send
Requests ==
    {[method |-> "GET", url |-> FontCss, destination |-> "style"],
     [method |-> "GET", url |-> Local("/"), destination |-> "document"],
     [method |-> "POST", url |-> Local("/api/mesures"), destination |-> ""],
     [method |-> "GET", url |-> ExtensionUrl, destination |-> "script"]}

\* fetch events are numbered in the order they are dispatched
NextIdle(f) == Min({i \in DOMAIN f : f[i].pc = "idle"} \cup {Len(f) + 1})

\* the version the latest completed background refresh of url u fetched
\* with status 200 (0 when there is none)
Refreshed(rq, u) ==
    LET done == {i \in DOMAIN rq : /\ rq[i].upc = "done"
                                   /\ rq[i].request.url = u
                                   /\ rq[i].updResponse.status = 200}
    IN IF done = {} THEN 0
       ELSE CHOOSE v \in {rq[i].updResponse.body[2] : i \in done} :
               \A j \in done : rq[j].updResponse.body[2] <= v

\* RouteOf without the test of the origin: every request is handed the
\* primary generation
RouteOfPrimaryOnly(url) == CACHE_NAME

\* the generation the 'fetch' listener hands to cacheFirstStrategy
RouteOf(url) ==
    IF url.origin = FONTS_API \/ url.origin = FONTS_STATIC
    THEN EXTERNAL_CACHE_NAME
    ELSE CACHE_NAME

\* FetchEvent without the test of the method: only chrome-extension
\* requests return before respondWith
FetchEventAnyMethod(i, r) ==
    /\ phase = "activated"
    /\ i = NextIdle(req)
    /\ i <= MaxRequests
    /\ IF r.url.protocol = "chrome-extension:"
       THEN /\ req' = [req EXCEPT ![i] = [@ EXCEPT !.pc = "ignored", !.request = r]]
            /\ UNCHANGED fresh
       ELSE /\ req' = [req EXCEPT ![i] =
                         [@ EXCEPT !.pc = "match",
                                   !.request = r,
                                   !.cacheName = RouteOf(r.url),
                                   !.first = fresh,
                                   !.refreshed = Refreshed(req, r.url)]]
            /\ fresh' = FALSE
    /\ UNCHANGED <<caches, online, netVer, phase, inst, act, msg, skipWaiting>>

\* the 'fetch' listener: non-GET and chrome-extension requests return
\* before respondWith; the others start cacheFirstStrategy
FetchEvent(i, r) ==
    /\ phase = "activated"
    /\ i = NextIdle(req)
    /\ i <= MaxRequests
    /\ IF r.method # "GET" \/ r.url.protocol = "chrome-extension:"
       THEN /\ req' = [req EXCEPT ![i] = [@ EXCEPT !.pc = "ignored", !.request = r]]
            /\ UNCHANGED fresh
       ELSE /\ req' = [req EXCEPT ![i] =
                         [@ EXCEPT !.pc = "match",
                                   !.request = r,
                                   !.cacheName = RouteOf(r.url),
                                   !.first = fresh,
                                   !.refreshed = Refreshed(req, r.url)]]
            /\ fresh' = FALSE
    /\ UNCHANGED <<caches, online, netVer, phase, inst, act, msg, skipWaiting>>

\* Match with the stored response ignored: the handler always goes on to
\* the network
MatchNetworkOnly(i) ==
    /\ req[i].pc = "match"
    /\ req' = [req EXCEPT ![i].pc = "fetch"]
    /\ UNCHANGED <<caches, online, netVer, phase, inst, act, msg, skipWaiting, fresh>>

\* Match with updateCache awaited on a hit: the stored response is
\* returned only once the refresh has ended
MatchAwaitRefresh(i) ==
    /\ req[i].pc = "match"
    /\ LET cachedResponse == CachesMatch(caches, req[i].request.url)
       IN IF cachedResponse # undefined
          THEN req' = [req EXCEPT ![i] =
                         [@ EXCEPT !.pc = "refresh",
                                   !.cachedResponse = cachedResponse,
                                   !.from = MatchedIn(caches, req[i].request.url),
                                   !.upc = "fetch"]]
          ELSE req' = [req EXCEPT ![i].pc = "fetch"]
    /\ UNCHANGED <<caches, online, netVer, phase, inst, act, msg, skipWaiting, fresh>>

\* const cachedResponse = await caches.match(request); on a hit updateCache
\* is started and the stored response is returned
Match(i) ==
    /\ req[i].pc = "match"
    /\ LET cachedResponse == CachesMatch(caches, req[i].request.url)
       IN IF cachedResponse # undefined
          THEN req' = [req EXCEPT ![i] =
                         [@ EXCEPT !.pc = "done",
                                   !.cachedResponse = cachedResponse,
                                   !.from = MatchedIn(caches, req[i].request.url),
                                   !.upc = "fetch",
                                   !.result = cachedResponse]]
          ELSE req' = [req EXCEPT ![i].pc = "fetch"]
    /\ UNCHANGED <<caches, online, netVer, phase, inst, act, msg, skipWaiting, fresh>>

\* Thrown with the offline document returned whatever the destination
ThrownAlwaysDocument(t) == [t EXCEPT !.pc = "catch"]

\* catch (error), for a request that is not a document: the handler
\* returns new Response('', { status: 408, statusText: 'Offline' }) at
\* once; for a document it goes on to await caches.match('./index.html')
Thrown(t) ==
    IF t.request.destination = "document"
    THEN [t EXCEPT !.pc = "catch"]
    ELSE [t EXCEPT !.pc = "done", !.result = OfflineResponse]

\* NetFetch without the test of the status: every response the network
\* gives goes on to caches.open and cache.put
NetFetchAnyStatus(i) ==
    /\ req[i].pc = "fetch"
    /\ IF online
       THEN \E s \in NetStatuses :
              req' = [req EXCEPT ![i] =
                        [@ EXCEPT !.networkResponse =
                                      NetResponse(req[i].request.url, netVer, s),
                                  !.pc = "open"]]
       ELSE req' = [req EXCEPT ![i] = Thrown(@)]
    /\ UNCHANGED <<caches, online, netVer, phase, inst, act, msg, skipWaiting, fresh>>

\* NetFetch with a response that is not 200 thrown as an error: the
\* handler answers it with its fallback
NetFetchThrowsOnStatus(i) ==
    /\ req[i].pc = "fetch"
    /\ IF online
       THEN \E s \in NetStatuses :
              LET networkResponse == NetResponse(req[i].request.url, netVer, s)
              IN IF s = 200
                 THEN req' = [req EXCEPT ![i] =
                                [@ EXCEPT !.networkResponse = networkResponse,
                                          !.pc = "open"]]
                 ELSE req' = [req EXCEPT ![i] =
                                Thrown([@ EXCEPT !.networkResponse = networkResponse])]
       ELSE req' = [req EXCEPT ![i] = Thrown(@)]
    /\ UNCHANGED <<caches, online, netVer, phase, inst, act, msg, skipWaiting, fresh>>

\* const networkResponse = await fetch(request): rejected when offline;
\* a response that is not 200 is returned as it is
NetFetch(i) ==
    /\ req[i].pc = "fetch"
    /\ IF online
       THEN \E s \in NetStatuses :
              LET networkResponse == NetResponse(req[i].request.url, netVer, s)
              IN req' = [req EXCEPT ![i] =
                           [@ EXCEPT !.networkResponse = networkResponse,
                                     !.pc = IF s = 200 THEN "open" ELSE "done",
                                     !.result = IF s = 200 THEN @ ELSE networkResponse]]
       ELSE req' = [req EXCEPT ![i] = Thrown(@)]
    /\ UNCHANGED <<caches, online, netVer, phase, inst, act, msg, skipWaiting, fresh>>

\* const cache = await caches.open(cacheName); cache.put(...) is called and
\* not awaited; return networkResponse.  A failed open is thrown to catch
Open(i) ==
    /\ req[i].pc = "open"
    /\ \E ok \in BOOLEAN :
         IF ok
         THEN /\ caches' = CachesOpen(caches, req[i].cacheName)
              /\ req' = [req EXCEPT ![i] =
                           [@ EXCEPT !.pc = "done",
                                     !.put = "pending",
                                     !.result = req[i].networkResponse]]
         ELSE /\ req' = [req EXCEPT ![i] = Thrown(@)]
              /\ UNCHANGED caches
    /\ UNCHANGED <<online, netVer, phase, inst, act, msg, skipWaiting, fresh>>

\* catch (error), for a document: return caches.match('./index.html')
Catch(i) ==
    /\ req[i].pc = "catch"
    /\ req' = [req EXCEPT ![i] =
                 [@ EXCEPT !.pc = "done",
                           !.result = CachesMatch(caches, Local("/index.html"))]]
    /\ UNCHANGED <<caches, online, netVer, phase, inst, act, msg, skipWaiting, fresh>>

\* UpdateFetch without the test of the status: every response the network
\* gives goes on to caches.open and cache.put
UpdateFetchAnyStatus(i) ==
    /\ req[i].upc = "fetch"
    /\ IF online
       THEN \E s \in NetStatuses :
              req' = [req EXCEPT ![i] =
                        [@ EXCEPT !.updResponse = NetResponse(req[i].request.url, netVer, s),
                                  !.upc = "open"]]
       ELSE req' = [req EXCEPT ![i].upc = "done"]
    /\ UNCHANGED <<caches, online, netVer, phase, inst, act, msg, skipWaiting, fresh>>

\* updateCache: const networkResponse = await fetch(request); a rejection
\* or a status other than 200 ends the refresh silently
UpdateFetch(i) ==
    /\ req[i].upc = "fetch"
    /\ IF online
       THEN \E s \in NetStatuses :
              req' = [req EXCEPT ![i] =
                        [@ EXCEPT !.updResponse = NetResponse(req[i].request.url, netVer, s),
                                  !.upc = IF s = 200 THEN "open" ELSE "done"]]
       ELSE req' = [req EXCEPT ![i].upc = "done"]
    /\ UNCHANGED <<caches, online, netVer, phase, inst, act, msg, skipWaiting, fresh>>

\* updateCache: const cache = await caches.open(cacheName); cache.put(...)
\* is called and not awaited; the function returns
UpdateOpen(i) ==
    /\ req[i].upc = "open"
    /\ \E ok \in BOOLEAN :
         IF ok
         THEN /\ caches' = CachesOpen(caches, req[i].cacheName)
              /\ req' = [req EXCEPT ![i] = [@ EXCEPT !.upc = "done", !.put = "pending"]]
         ELSE /\ req' = [req EXCEPT ![i].upc = "done"]
              /\ UNCHANGED caches
    /\ UNCHANGED <<online, netVer, phase, inst, act, msg, skipWaiting, fresh>>

\* the response a pending cache.put writes
PutResponse(t) == IF t.upc = "none" THEN t.networkResponse ELSE t.updResponse

\* a cache.put settles: the entry is written, or the write is rejected and
\* nobody hears of it; a write through the handle of a deleted cache is
\* not seen by the store
PutSettle(i) ==
    /\ req[i].put \in {"pending", "detached"}
    /\ \E ok \in BOOLEAN :
         IF ok /\ req[i].put = "pending"
         THEN /\ caches' = CachePut(caches, req[i].cacheName,
                                    req[i].request.url, PutResponse(req[i]))
              /\ req' = [req EXCEPT ![i].put = "settled"]
         ELSE /\ req' = [req EXCEPT ![i].put = "settled"]
              /\ UNCHANGED caches
    /\ UNCHANGED <<online, netVer, phase, inst, act, msg, skipWaiting, fresh>>

(* ------------------------------ message ------------------------------- *)

MessageTypes == {"SKIP_WAITING", "CLEAR_CACHE", "PING"}

\* the 'message' listener
Message(k, type) ==
    /\ phase \in {"installed", "activated"}
    /\ k = NextIdle(msg)
    /\ k <= MaxMessages
    /\ skipWaiting' = IF type = "SKIP_WAITING"
                      THEN skipWaiting \cup {"message"}
                      ELSE skipWaiting
    /\ msg' = [msg EXCEPT ![k].pc = IF type = "CLEAR_CACHE" THEN "keys" ELSE "ignored"]
    /\ UNCHANGED <<caches, online, netVer, phase, inst, act, req, fresh>>

\* caches.keys().then(cacheNames => Promise.all(cacheNames.map(delete))):
\* a caches.delete is started for every name; with no name there is
\* nothing to wait for
ClearKeys(k) ==
    /\ msg[k].pc = "keys"
    /\ msg' = [msg EXCEPT ![k] =
                 [pc |-> IF caches = <<>> THEN "fulfilled" ELSE "deleting",
                  todo |-> CachesKeys(caches)]]
    /\ fresh' = (fresh \/ caches = <<>>)
    /\ UNCHANGED <<caches, online, netVer, phase, inst, act, req, skipWaiting>>

\* the next caches.delete(cacheName) of the sweep settles: the first one
\* that fails rejects Promise.all, the last one to be fulfilled fulfils it
ClearDelete(k) ==
    /\ msg[k].pc \in {"deleting", "rejected"}
    /\ msg[k].todo # <<>>
    /\ \E ok \in BOOLEAN :
         IF ok
         THEN /\ caches' = CachesDelete(caches, Head(msg[k].todo))
              /\ req' = Detach(req, Head(msg[k].todo))
              /\ msg' = [msg EXCEPT ![k] =
                           [pc |-> IF @.pc = "deleting" /\ Len(@.todo) = 1
                                   THEN "fulfilled" ELSE @.pc,
                            todo |-> Tail(@.todo)]]
              /\ fresh' = (fresh \/ (msg[k].pc = "deleting" /\ Len(msg[k].todo) = 1))
         ELSE /\ msg' = [msg EXCEPT ![k] = [pc |-> "rejected", todo |-> Tail(@.todo)]]
              /\ UNCHANGED <<caches, req, fresh>>
    /\ UNCHANGED <<online, netVer, phase, inst, act, skipWaiting>>

Next ==
    \/ GoOffline
    \/ GoOnline
    \/ Publish
    \/ InstallEvent
    \/ InstallPrimaryOpen
    \/ InstallPrimaryAddAll
    \/ InstallExternalOpen
    \/ InstallExternalAddAll
    \/ InstallThen
    \/ InstallFail
    \/ ActivateEvent
    \/ ActivateKeys
    \/ ActivateDelete
    \/ ActivateThen
    \/ \E i \in 1..MaxRequests, r \in Requests : FetchEvent(i, r)
    \/ \E i \in 1..MaxRequests : Match(i)
    \/ \E i \in 1..MaxRequests : NetFetch(i)
    \/ \E i \in 1..MaxRequests : Open(i)
    \/ \E i \in 1..MaxRequests : Catch(i)
    \/ \E i \in 1..MaxRequests : UpdateFetch(i)
    \/ \E i \in 1..MaxRequests : UpdateOpen(i)
    \/ \E i \in 1..MaxRequests : PutSettle(i)
    \/ \E k \in 1..MaxMessages, type \in MessageTypes : Message(k, type)
    \/ \E k \in 1..MaxMessages : ClearKeys(k)
    \/ \E k \in 1..MaxMessages : ClearDelete(k)

Spec == Init /\ [][Next]_vars

(* ------------------------------ liveness ------------------------------ *)

\* the steps of Next but Publish: which version the server serves plays no
\* part in whether a request is answered
LiveNext ==
    \/ GoOffline
    \/ GoOnline
    \/ InstallEvent
    \/ InstallPrimaryOpen
    \/ InstallPrimaryAddAll
    \/ InstallExternalOpen
    \/ InstallExternalAddAll
    \/ InstallThen
    \/ InstallFail
    \/ ActivateEvent
    \/ ActivateKeys
    \/ ActivateDelete
    \/ ActivateThen
    \/ \E i \in 1..MaxRequests, r \in Requests : FetchEvent(i, r)
    \/ \E i \in 1..MaxRequests : Match(i)
    \/ \E i \in 1..MaxRequests : NetFetch(i)
    \/ \E i \in 1..MaxRequests : Open(i)
    \/ \E i \in 1..MaxRequests : Catch(i)
    \/ \E i \in 1..MaxRequests : UpdateFetch(i)
    \/ \E i \in 1..MaxRequests : UpdateOpen(i)
    \/ \E i \in 1..MaxRequests : PutSettle(i)
    \/ \E k \in 1..MaxMessages, type \in MessageTypes : Message(k, type)
    \/ \E k \in 1..MaxMessages : ClearKeys(k)
    \/ \E k \in 1..MaxMessages : ClearDelete(k)

\* the event loop runs every continuation whose awaited store operation
\* (caches.match, caches.open) has settled; nothing makes the network
\* answer: a fetch, of a handler or of a refresh, may stay pending for ever
LiveSpec ==
    /\ Init
    /\ [][LiveNext]_vars
    /\ \A i \in 1..MaxRequests :
          WF_vars(Match(i)) /\ WF_vars(Open(i)) /\ WF_vars(Catch(i))

(* ------------------------------- claims ------------------------------- *)

Range(f) == {f[k] : k \in DOMAIN f}

\* the caches of the store that hold an entry for url u, by position
HeldBy(cs, u) == {k \in DOMAIN cs : u \in DOMAIN cs[k].entries}

\* the fetch events respondWith was called for
Intercepted(i) == req[i].pc \notin {"idle", "ignored"}

\* task i has just looked its request up in the store
LookedUp(i) == req[i].pc = "match" /\ req'[i].pc # "match"

C2_RefreshedThenNew ==
    \A i \in 1..MaxRequests :
       (/\ req[i].pc = "done"
        /\ req[i].refreshed > 0
        /\ req[i].from \in {"", req[i].cacheName}
        /\ \A k \in 1..MaxMessages : msg[k].pc = "idle")
       => /\ req[i].result.status = 200
          /\ req[i].result.body[2] >= req[i].refreshed

\* C3, as claimed: a request to a font-provider origin is never answered from
\* another generation than the external one, and a request to another
\* origin is never answered from another generation than the primary one.
C3_ResolvedInRoutedGeneration ==
    \A i \in 1..MaxRequests :
       req[i].from # ""
       => IF req[i].request.url.origin \in {FONTS_API, FONTS_STATIC}
          THEN req[i].from = EXTERNAL_CACHE_NAME
          ELSE req[i].from = CACHE_NAME

\* C4, as claimed: the first request issued after a CLEAR_CACHE sweep has
\* completed, looked up while the network is disabled, finds no entry.
C4_ClearedThenMiss ==
    [][\A i \in 1..MaxRequests :
          (LookedUp(i) /\ req[i].first /\ ~online)
          => /\ req'[i].pc = "fetch"
             /\ req'[i].cachedResponse = undefined]_vars

\* C5, as claimed: a navigation request that found no entry and whose
\* network fetch was rejected is answered with the stored ./index.html.
C5_NavigationGetsOfflineDocument ==
    \A i \in 1..MaxRequests :
       (/\ req[i].pc = "done"
        /\ req[i].request.destination = "document"
        /\ req[i].cachedResponse = undefined
        /\ req[i].networkResponse = undefined)
       => /\ req[i].result.status = 200
          /\ req[i].result.body[1] = IndexHtml

\* C6: a GET request that is not a navigation, that found no entry and
\* whose network fetch was rejected, is answered with status 408, reason
\* 'Offline' and an empty body.
C6_OtherGetsOffline408 ==
    \A i \in 1..MaxRequests :
       (/\ req[i].pc = "done"
        /\ req[i].request.destination # "document"
        /\ req[i].cachedResponse = undefined
        /\ req[i].networkResponse = undefined)
       => /\ req[i].result.status = 408
          /\ req[i].result.statusText = "Offline"
          /\ req[i].result.body = <<>>

\* a font request missed the store, its fetch was rejected, and it was
\* answered
C6_Witness ==
    \E i \in 1..MaxRequests :
       /\ req[i].pc = "done"
       /\ req[i].request.url = FontCss
       /\ req[i].cachedResponse = undefined
       /\ req[i].networkResponse = undefined
       /\ req[i].result = OfflineResponse

\* C7, as claimed: every intercepted request that is answered is answered
\* with a response.
C7_AlwaysAResponse ==
    \A i \in 1..MaxRequests :
       req[i].pc = "done" => req[i].result # undefined

\* C8: a fetch event whose method is not GET ends in the listener: no
\* respondWith, no lookup, no fetch, no write, and the store is unchanged
\* by the event.
C8_NonGetUntouched ==
    [][\A i \in 1..MaxRequests :
          req'[i].request.method \notin {"", "GET"}
          => /\ req'[i].pc = "ignored"
             /\ req'[i].cacheName = ""
             /\ req'[i].cachedResponse = undefined
             /\ req'[i].networkResponse = undefined
             /\ req'[i].result = undefined
             /\ req'[i].upc = "none"
             /\ req'[i].put = "none"
             /\ (req[i].pc = "idle" => caches' = caches)]_vars

\* a POST request was dispatched to the listener
C8_Witness ==
    \E i \in 1..MaxRequests :
       req[i].pc = "ignored" /\ req[i].request.method = "POST"

C10_InstallIffPrimary ==
    (inst.primary \in {"fulfilled", "rejected"} /\ inst.all \in {"fulfilled", "rejected"})
    => ((inst.all = "fulfilled" /\ "install" \in skipWaiting)
        <=> inst.primary = "fulfilled")

\* the generation named n of the store holds an entry for url u
Holds(cs, n, u) ==
    \E k \in DOMAIN cs : cs[k].name = n /\ u \in DOMAIN cs[k].entries

\* C11, as claimed: when the handler returns the network response of a miss
\* whose fetch answered 200, the chosen generation already holds the entry
\* for the request.
C11_StoredBeforeReturned ==
    [][\A i \in 1..MaxRequests :
          (/\ req[i].pc = "open"
           /\ req'[i].pc = "done"
           /\ req'[i].result = req[i].networkResponse)
          => Holds(caches', req[i].cacheName, req[i].request.url)]_vars

\* the generation named n, as the store holds it (absent when it does not)
Generation(cs, n) ==
    IF n \in CacheNames(cs)
    THEN {cs[k].entries : k \in {j \in DOMAIN cs : cs[j].name = n}}
    ELSE {}

\* C12: no step of the activate handler deletes the primary, the external
\* or the reserved data generation or changes one of their entries.
C12_ActivateKeepsRecognized ==
    [][act' # act
       => \A n \in Recognized : Generation(caches', n) = Generation(caches, n)]_vars

\* activation has deleted the superseded generation and is over, and the
\* primary generation still holds what install wrote
C12_Witness ==
    /\ act.pc \in {"fulfilled", "rejected"}
    /\ act.todo = <<>>
    /\ OLD_CACHE_NAME \in act.stale
    /\ OLD_CACHE_NAME \notin CacheNames(caches)
    /\ \A k \in DOMAIN CACHE_URLS : Holds(caches, CACHE_NAME, CACHE_URLS[k])

\* C13: clients.claim is called only when every deletion the activation
\* started has been fulfilled, the stale generations being gone from the
\* store; an activation one of whose deletions failed never calls it.
C13_ClaimOnlyAfterCleanup ==
    [][/\ (act'.claimed /\ ~act.claimed)
          => /\ act.pc = "deleting"
             /\ act.todo = <<>>
             /\ act.stale \cap CacheNames(caches) = {}
       /\ act'.pc = "rejected" => ~act'.claimed
       /\ act.pc = "rejected" => act'.pc = "rejected"]_vars

\* clients.claim has been called by an activation that had a superseded
\* generation to delete
C13_Witness ==
    /\ act.claimed
    /\ OLD_CACHE_NAME \in act.stale
    /\ phase = "activated"

\* the entry the generation named n holds for url u (undefined when none)
EntryOf(cs, n, u) ==
    IF Holds(cs, n, u)
    THEN (CHOOSE c \in Range(cs) : c.name = n).entries[u]
    ELSE undefined

\* C14: every entry a step of the worker creates or overwrites, in whatever
\* generation, holds a response with status 200.
C14_OnlySuccessStored ==
    [][\A k \in DOMAIN caches' : \A u \in DOMAIN caches'[k].entries :
          caches'[k].entries[u] # EntryOf(caches, caches'[k].name, u)
          => caches'[k].entries[u].status = 200]_vars

\* the miss path has written the response it fetched while another request
\* was answered by the network with a status other than 200
C14_Witness ==
    \E i, j \in 1..MaxRequests :
       /\ req[i].upc = "none"
       /\ req[i].put = "settled"
       /\ EntryOf(caches, req[i].cacheName, req[i].request.url) = req[i].networkResponse
       /\ req[j].pc = "done"
       /\ req[j].networkResponse.status = 404

\* C15: the step in which the fetch of a background refresh is rejected or
\* answers another status than 200 changes no generation and no entry, the
\* caller of the hit has its stored response already and keeps it, and a
\* refresh that has no 200 response has no write in flight.
C15_FailedRefreshChangesNothing ==
    [][\A i \in 1..MaxRequests :
          /\ (req[i].upc = "fetch" /\ req'[i].upc # "fetch"
              /\ req'[i].updResponse.status # 200)
             => /\ caches' = caches
                /\ req'[i].upc = "done"
                /\ req[i].pc = "done"
                /\ req[i].result = req[i].cachedResponse
                /\ req'[i].result = req[i].result
          /\ (req'[i].upc # "none" /\ req'[i].updResponse.status # 200)
             => req'[i].put = "none"]_vars

\* a request was answered from the store and its background refresh was
\* answered 404 by the network
C15_Witness ==
    \E i \in 1..MaxRequests :
       /\ req[i].pc = "done"
       /\ req[i].result = req[i].cachedResponse
       /\ req[i].upc = "done"
       /\ req[i].updResponse.status = 404
       /\ req[i].put = "none"

\* cacheFirstStrategy is running for fetch event i
Handling(i) == req[i].pc \in {"match", "fetch", "open", "catch"}

\* C16: whatever fetches stay pending for ever, a request whose own fetch
\* is answered or rejected whenever it is awaited is eventually answered;
\* every lookup ends, in an answer or in the request's own fetch; and a
\* request whose background refresh awaits its fetch has been answered
\* already.
C16_HungFetchBlocksOnlyItsRequest ==
    /\ \A i \in 1..MaxRequests :
          WF_vars(NetFetch(i)) => (Handling(i) ~> req[i].pc = "done")
    /\ \A i \in 1..MaxRequests :
          req[i].pc = "match" ~> req[i].pc \in {"fetch", "done"}
    /\ [](\A i \in 1..MaxRequests : req[i].upc = "fetch" => req[i].pc = "done")

\* a request has been answered by the network while the fetch of an
\* earlier request is pending, and another one has been answered from the
\* store while its refresh is pending
C16_Witness ==
    \/ /\ req[1].pc = "fetch"
       /\ req[2].pc = "done"
       /\ req[2].networkResponse # undefined
       /\ req[2].result = req[2].networkResponse
    \/ /\ req[1].pc = "fetch"
       /\ req[2].pc = "done"
       /\ req[2].upc = "fetch"
       /\ req[2].result = req[2].cachedResponse

\* how far cacheFirstStrategy has got, and how far its updateCache
PcRank(pc) ==
    CASE pc = "idle" -> 0
      [] pc \in {"ignored", "match"} -> 1
      [] pc = "fetch" -> 2
      [] pc = "open" -> 3
      [] pc = "catch" -> 4
      [] OTHER -> 5

UpcRank(upc) ==
    CASE upc = "none" -> 0
      [] upc = "fetch" -> 1
      [] upc = "open" -> 2
      [] OTHER -> 3

\* a step in which neither the handler nor the refresh of event i goes
\* back to a step it has left, so that each awaits fetch at most once; a
\* refresh is started only by the lookup that answers from the store,
\* which skips the handler's own fetch; an answer is never changed
NoRetryStep(i) ==
    /\ PcRank(req'[i].pc) >= PcRank(req[i].pc)
    /\ UpcRank(req'[i].upc) >= UpcRank(req[i].upc)
    /\ (req[i].upc = "none" /\ req'[i].upc # "none")
       => (req[i].pc = "match" /\ req'[i].pc = "done")
    /\ req[i].pc = "done"
       => (req'[i].pc = "done" /\ req'[i].result = req[i].result)

\* the handler of event i ends in this step after a failure: it returns
\* something else than a stored response or the response of the network
EndsInFailure(i) ==
    /\ req[i].pc \in {"fetch", "open", "catch"}
    /\ req'[i].pc = "done"
    /\ ~(req'[i].networkResponse # undefined
         /\ req'[i].result = req'[i].networkResponse)

\* C17, the part about fetches: each intercepted request causes at most
\* one network fetch and none after its answer.
C17_NoRetry ==
    [][\A i \in 1..MaxRequests : NoRetryStep(i)]_vars

\* C17, as claimed: each intercepted request causes at most one network
\* fetch, and a handler that ends after a failure returns one fallback
\* response, the synthetic 408 or the stored offline document.
C17_OneFetchOneFallback ==
    [][\A i \in 1..MaxRequests :
          /\ NoRetryStep(i)
          /\ EndsInFailure(i)
             => \/ req'[i].result = OfflineResponse
                \/ /\ req'[i].result.status = 200
                   /\ req'[i].result.body[1] = IndexHtml]_vars

\* C18, as claimed: a request that missed the store and whose fetch was
\* answered 200 is answered with that network response, whether or not
\* opening the chosen generation and writing the entry succeed.
C18_StoreFailureKeepsResponse ==
    \A i \in 1..MaxRequests :
       (req[i].pc = "done" /\ req[i].networkResponse.status = 200)
       => req[i].result = req[i].networkResponse

\* C19: when the fetch of a request that missed the store is answered with
\* another status than 200, the handler returns that response as it is in
\* the same step, no generation and no entry changes, and the request has
\* no write and no refresh.
C19_NonSuccessReturnedUnchanged ==
    [][\A i \in 1..MaxRequests :
          req'[i].networkResponse.status \notin {0, 200}
          => /\ req'[i].pc = "done"
             /\ req'[i].result = req'[i].networkResponse
             /\ req'[i].result.body = <<req'[i].request.url, req'[i].result.body[2]>>
             /\ req'[i].put = "none"
             /\ req'[i].upc = "none"
             /\ (req[i].pc = "fetch" => caches' = caches)]_vars

\* a font request missed the store and was answered with the 404 of the
\* network
C19_Witness ==
    \E i \in 1..MaxRequests :
       /\ req[i].pc = "done"
       /\ req[i].request.url = FontCss
       /\ req[i].cachedResponse = undefined
       /\ req[i].networkResponse.status = 404
       /\ req[i].result = req[i].networkResponse

\* url u is of one of the two font-provider origins
FontOrigin(u) == u.origin \in {FONTS_API, FONTS_STATIC}

\* C20: every entry a step of the worker creates or overwrites is, in the
\* external generation, for a font-provider URL and, in the primary
\* generation, for a URL of another origin; no step creates an entry in
\* another generation, and no step creates the reserved data generation.
C20_GenerationsDisjointByOrigin ==
    [][/\ \A k \in DOMAIN caches' : \A u \in DOMAIN caches'[k].entries :
             caches'[k].entries[u] # EntryOf(caches, caches'[k].name, u)
             => \/ caches'[k].name = EXTERNAL_CACHE_NAME /\ FontOrigin(u)
                \/ caches'[k].name = CACHE_NAME /\ ~FontOrigin(u)
       /\ CacheNames(caches') \ CacheNames(caches) \subseteq
             {CACHE_NAME, EXTERNAL_CACHE_NAME}]_vars

\* a handler has written a font response to the external generation, and
\* the primary generation, which exists, holds no entry for it
C20_Witness ==
    \E i \in 1..MaxRequests :
       /\ req[i].request.url = FontCss
       /\ req[i].put = "settled"
       /\ EntryOf(caches, EXTERNAL_CACHE_NAME, FontCss) = PutResponse(req[i])
       /\ CACHE_NAME \in CacheNames(caches)
       /\ ~Holds(caches, CACHE_NAME, FontCss)

====
